---- MODULE Spec2Model ----
(***************************************************************************)
(* A model of BookmarkServer.py: a threaded HTTP server that keeps a       *)
(* dictionary from short names to long URIs.  Every request is handled by  *)
(* its own thread (ThreadingMixIn); the threads share the module-level     *)
(* dictionary `memory` and take no lock.  A handler is modelled as a       *)
(* sequence of steps, one step per access to `memory` or to the network;   *)
(* the code between two such accesses only touches the handler's locals    *)
(* and is folded into the step that precedes it.                           *)
(*                                                                         *)
(* Strings are sequences of tokens.  A token is one character, or one      *)
(* percent-escape ("%62"), or an opaque piece of a URI ("u1", "u2").       *)
(***************************************************************************)
EXTENDS Integers, Sequences, FiniteSets, TLC

VARIABLES memory, pc, req, loc, resp, origin, seen, served

vars == <<memory, pc, req, loc, resp, origin, seen, served>>

\* ------------------------------------------------------------------ bounds

\* Number of handler threads that can be in flight at the same time.
NumHandlers == 2

\* Number of requests the server accepts in one behaviour.
MaxRequests == 4

\* Number of fields in a POST body.
MaxFields == 3

\* ------------------------------------------------------- program constants

\* iAmCookie["yourname"]["max-age"] = 600
MaxAge == 600

Handlers == 1..NumHandlers

\* ------------------------------------------------------------------ inputs

Empty == << >>

\* Request paths: "/", "/a", "/%62" (which decodes to "/b").
Paths == { <<"/">>, <<"/", "a">>, <<"/", "%62">> }

\* The paths a form is posted to.
PostPaths == { <<"/">>, <<"/", "a">> }

\* The long URIs clients submit.
URIs == { <<"u1">>, <<"u2">> }

\* Cookie header values, each a list of key=value items as sent by a client:
\*   yourname=a ; yourname="z " (the quoted form that the server itself
\*   issues for the name "z ") ; theme=a
CookieHeaders ==
    { << [k |-> "yourname", v |-> <<"a">>] >>,
      << [k |-> "yourname", v |-> <<"\"", "z", " ", "\"">>] >>,
      << [k |-> "theme", v |-> <<"a">>] >> }

\* Fields of an URL-encoded form body, values still encoded:
\*   yourname=z+  yourname=  longuri=u1  longuri=u2  shortname=a  shortname=%62
Fields ==
    { [k |-> "yourname", v |-> <<"z", "+">>],
      [k |-> "yourname", v |-> Empty],
      [k |-> "longuri", v |-> <<"u1">>],
      [k |-> "longuri", v |-> <<"u2">>],
      [k |-> "shortname", v |-> <<"a">>],
      [k |-> "shortname", v |-> <<"%62">>] }

Bodies == UNION { [1..n -> Fields] : n \in 0..MaxFields }

\* What one outbound requests.get can end in: a response with status 200, a
\* response with another status, or a requests.RequestException (timeout,
\* connection failure, malformed URI).
Outcomes == { "200", "other", "RequestException" }

\* ------------------------------------------------------- library functions

\* urllib.parse.unquote: every percent-escape becomes the character it names.
PctDecode(c) ==
    CASE c = "%61" -> "a"
      [] c = "%62" -> "b"
      [] c = "%20" -> " "
      [] OTHER -> c

unquote(s) == [i \in 1..Len(s) |-> PctDecode(s[i])]

\* parse_qs decodes a value with '+' replaced by a space, then unquote.
PlusDecode(s) == [i \in 1..Len(s) |-> IF s[i] = "+" THEN " " ELSE s[i]]

RECURSIVE ValuesOf(_, _)
\* The decoded non-blank values of key k in body, in order of appearance.
ValuesOf(body, k) ==
    IF body = Empty THEN Empty
    ELSE LET f == Head(body)
             rest == ValuesOf(Tail(body), k)
         IN  IF f.k = k /\ f.v # Empty
             THEN <<unquote(PlusDecode(f.v))>> \o rest
             ELSE rest

\* urllib.parse.parse_qs(body): key -> list of values; a field whose value is
\* blank is dropped (keep_blank_values is off), so its key may be missing.
parse_qs(body) ==
    LET keys == { body[i].k : i \in { j \in 1..Len(body) : body[j].v # Empty } }
    IN  [k \in keys |-> ValuesOf(body, k)]

\* http.cookies._unquote: a value in double quotes loses them.
CookieUnquote(v) ==
    IF Len(v) < 2 \/ v[1] # "\"" \/ v[Len(v)] # "\""
    THEN v
    ELSE SubSeq(v, 2, Len(v) - 1)

\* Characters that http.cookies leaves unquoted in a cookie value.
LegalChars == { "a", "b", "z", "u1", "u2", "%", "+", "-", ".", "_" }

\* http.cookies._quote: a value with any other character is put in quotes.
CookieQuote(v) ==
    IF \A i \in 1..Len(v) : v[i] \in LegalChars
    THEN v
    ELSE <<"\"">> \o v \o <<"\"">>

\* cookies.SimpleCookie(header): key -> value; a later item of the same key
\* replaces an earlier one.
SimpleCookie(header) ==
    LET keys == { header[i].k : i \in 1..Len(header) }
        last(k) == CHOOSE i \in 1..Len(header) :
                      /\ header[i].k = k
                      /\ \A j \in (i + 1)..Len(header) : header[j].k # k
    IN  [k \in keys |-> CookieUnquote(header[last(k)].v)]

\* html.escape
EscapeChar(c) ==
    CASE c = "<" -> "&lt;"
      [] c = ">" -> "&gt;"
      [] c = "&" -> "&amp;"
      [] c = "\"" -> "&quot;"
      [] c = "'" -> "&#x27;"
      [] OTHER -> c

html_escape(s) == [i \in 1..Len(s) |-> EscapeChar(s[i])]

\* Code points, for the order of Python's string comparison.
Code(c) ==
    CASE c = " " -> 32
      [] c = "a" -> 97
      [] c = "b" -> 98
      [] c = "z" -> 122
      [] OTHER -> 0

RECURSIVE StrLess(_, _)
StrLess(s, t) ==
    IF t = Empty THEN FALSE
    ELSE IF s = Empty THEN TRUE
    ELSE IF Code(Head(s)) # Code(Head(t)) THEN Code(Head(s)) < Code(Head(t))
    ELSE StrLess(Tail(s), Tail(t))

RECURSIVE sortedDescending(_)
\* The keys in descending order (a sort with the comparison reversed).
sortedDescending(S) ==
    IF S = {} THEN Empty
    ELSE LET most == CHOOSE x \in S : \A y \in S \ {x} : StrLess(y, x)
         IN  <<most>> \o sortedDescending(S \ {most})

RECURSIVE sorted(_)
\* sorted(memory.keys()): the keys in ascending order.
sorted(S) ==
    IF S = {} THEN Empty
    ELSE LET least == CHOOSE x \in S : \A y \in S \ {x} : StrLess(x, y)
         IN  <<least>> \o sorted(S \ {least})

\* ------------------------------------------------------------ the registry

\* memory = {}
EmptyMemory == [x \in {} |-> Empty]

\* A store that rebinds the dictionary to the new pair alone.
SetItemOnly(m, k, v) == [x \in {k} |-> v]

\* memory[k] = v on a dict: insert k, or replace the value k has.
SetItem(m, k, v) == [x \in DOMAIN m \cup {k} |-> IF x = k THEN v ELSE m[x]]

\* ---------------------------------------------------------------- messages

\* message = "I don't know you yet!"
DontKnowYou == [kind |-> "dont-know-you-yet", who |-> Empty]

\* message = "Hey there, " + html_escape(name)
HeyThere(who) == [kind |-> "hey-there", who |-> html_escape(who)]

\* message = "I'm not sure who you are!"
NotSure == [kind |-> "not-sure-who-you-are", who |-> Empty]

\* --------------------------------------------------------------- responses

NoBody == [kind |-> "", name |-> Empty, listing |-> Empty, message |-> DontKnowYou]

\* A handler that has sent nothing (yet): status 0.
NoResponse ==
    [status |-> 0, location |-> Empty, setCookie |-> Empty, ctype |-> "",
     body |-> NoBody]

\* A redirect that sends the client to the root instead of the stored URI.
RedirectHome(uri) == [NoResponse EXCEPT !.status = 303, !.location = <<"/">>]

\* send_response(303); send_header('Location', memory[name]); end_headers()
Redirect(uri) == [NoResponse EXCEPT !.status = 303, !.location = uri]

\* send_response(404) ... "I don't know '{}'.".format(name)
NotFound(name) ==
    [NoResponse EXCEPT !.status = 404, !.ctype = "text/plain; charset=utf-8",
                       !.body = [NoBody EXCEPT !.kind = "i-dont-know", !.name = name]]

\* A form page that also sets a cookie.
FormPageWithCookie(known, message) ==
    [NoResponse EXCEPT !.status = 200, !.ctype = "text/html",
                       !.setCookie = <<[name |-> "yourname", value |-> message.who,
                                        maxAge |-> 600, domain |-> "localhost"]>>,
                       !.body = [NoBody EXCEPT !.kind = "form", !.listing = known,
                                               !.message = message]]

\* send_response(200) ... form.format(known + "\n" + message)
FormPage(known, message) ==
    [NoResponse EXCEPT !.status = 200, !.ctype = "text/html",
                       !.body = [NoBody EXCEPT !.kind = "form", !.listing = known,
                                               !.message = message]]

\* send_response(400) ... "Missing form fields!"
MissingFields ==
    [NoResponse EXCEPT !.status = 400, !.ctype = "text/html charset=utf-8",
                       !.body = [NoBody EXCEPT !.kind = "missing-form-fields"]]

\* iAmCookie["yourname"] = yourname, max-age 600, domain localhost, as
\* OutputString() writes it.
iAmCookie(yourname) ==
    [name |-> "yourname", value |-> CookieQuote(yourname), maxAge |-> MaxAge,
     domain |-> "localhost"]

\* The 303 answer without its Set-Cookie header.
RegisteredNoCookie(yourname) == [NoResponse EXCEPT !.status = 303, !.location = <<"/">>]

\* send_response(303); Location: / ; Set-Cookie: the yourname cookie
Registered(yourname) ==
    [NoResponse EXCEPT !.status = 303, !.location = <<"/">>,
                       !.setCookie = <<iAmCookie(yourname)>>]

\* send_response(404) ... "This is unfair!"
Unfair ==
    [NoResponse EXCEPT !.status = 404, !.ctype = "text/html charset=utf-8",
                       !.body = [NoBody EXCEPT !.kind = "this-is-unfair"]]

\* ----------------------------------------------------------- the validator

\* A CheckURI that takes any response, whatever its status, for success.
CheckURIAnyResponse(outcome) ==
    CASE outcome = "RequestException" -> "False"
      [] OTHER -> "True"

\* CheckURI: True on status 200; falls off the end (None) on another status;
\* False on a requests.RequestException.
CheckURI(outcome) ==
    CASE outcome = "200" -> "True"
      [] outcome = "other" -> "None"
      [] OTHER -> "False"

\* A test that rejects only an explicit False (CheckURI(longuri) is not False).
TruthyNotFalse(result) == result # "False"

\* if CheckURI(longuri):
Truthy(result) == result = "True"

\* ------------------------------------------------------------------- state

NoRequest ==
    [method |-> "", path |-> Empty, hasCookie |-> FALSE, cookie |-> Empty,
     hasLength |-> FALSE]

\* What a handler knows of its CheckURI call: the URI it passed and how the
\* outbound request ended.
NotChecked == [uri |-> Empty, outcome |-> ""]

\* A handler's local variables, named as in the code.  params holds the keys
\* of the parsed form; error names the exception that ended the handler.
NoLocals ==
    [name |-> Empty, message |-> DontKnowYou, keys |-> Empty, known |-> Empty,
     params |-> {}, yourname |-> Empty, longuri |-> Empty, shortname |-> Empty,
     checked |-> NotChecked, error |-> ""]

GetSteps == { "in_memory", "read_value", "sorted_keys", "format_item" }

Init ==
    /\ memory = EmptyMemory
    /\ pc = [t \in Handlers |-> "idle"]
    /\ req = [t \in Handlers |-> NoRequest]
    /\ loc = [t \in Handlers |-> NoLocals]
    /\ resp = [t \in Handlers |-> NoResponse]
    /\ origin = EmptyMemory
    /\ seen = [t \in Handlers |-> {}]
    /\ served = 0

\* ------------------------------------------------------------------ do_GET

\* name = unquote(self.path[1:]), then overwritten by the value of the
\* yourname cookie when the Cookie header has one.
LookupName(path, hasCookie, cookie) ==
    IF hasCookie /\ "yourname" \in DOMAIN SimpleCookie(cookie)
    THEN SimpleCookie(cookie)["yourname"]
    ELSE unquote(Tail(path))

\* A message that keeps the default when the cookie cannot be read.
GreetingKeepsDefault(hasCookie, cookie) ==
    IF hasCookie /\ "yourname" \in DOMAIN SimpleCookie(cookie)
    THEN HeyThere(SimpleCookie(cookie)["yourname"])
    ELSE DontKnowYou

\* The message the form shows: the default, the greeting, or (KeyError or
\* CookieError while reading the cookie) the not-sure message.
Greeting(hasCookie, cookie) ==
    IF ~hasCookie THEN DontKnowYou
    ELSE IF "yourname" \in DOMAIN SimpleCookie(cookie)
         THEN HeyThere(SimpleCookie(cookie)["yourname"])
         ELSE NotSure

\* A thread starts do_GET: it computes name and message from the path and
\* the Cookie header, and branches on name.
do_GET(t) ==
    /\ pc[t] = "idle"
    /\ served < MaxRequests
    /\ \E path \in Paths, hasCookie \in BOOLEAN, cookie \in CookieHeaders \cup {Empty} :
          /\ hasCookie = (cookie # Empty)
          /\ LET name == LookupName(path, hasCookie, cookie)
             IN  /\ req' = [req EXCEPT ![t] =
                              [NoRequest EXCEPT !.method = "GET", !.path = path,
                                                !.hasCookie = hasCookie,
                                                !.cookie = cookie]]
                 /\ loc' = [loc EXCEPT ![t] =
                              [NoLocals EXCEPT !.name = name,
                                               !.message = Greeting(hasCookie, cookie)]]
                 /\ pc' = [pc EXCEPT ![t] =
                              IF name # Empty THEN "in_memory" ELSE "sorted_keys"]
    /\ resp' = [resp EXCEPT ![t] = NoResponse]
    /\ seen' = [seen EXCEPT ![t] = {memory}]
    /\ served' = served + 1
    /\ UNCHANGED <<memory, origin>>

\* if name in memory: send_response(303) ... else: the 404 answer.
GetInMemory(t) ==
    /\ pc[t] = "in_memory"
    /\ IF loc[t].name \in DOMAIN memory
       THEN /\ pc' = [pc EXCEPT ![t] = "read_value"]
            /\ resp' = [resp EXCEPT ![t] = [NoResponse EXCEPT !.status = 303]]
       ELSE /\ pc' = [pc EXCEPT ![t] = "done"]
            /\ resp' = [resp EXCEPT ![t] = NotFound(loc[t].name)]
    /\ UNCHANGED <<memory, req, loc, origin, seen, served>>

\* send_header('Location', memory[name]); end_headers()
GetReadValue(t) ==
    /\ pc[t] = "read_value"
    /\ loc[t].name \in DOMAIN memory
    /\ resp' = [resp EXCEPT ![t] = Redirect(memory[loc[t].name])]
    /\ pc' = [pc EXCEPT ![t] = "done"]
    /\ UNCHANGED <<memory, req, loc, origin, seen, served>>

\* send_response(200) ...; sorted(memory.keys()) is evaluated once, before
\* the generator reads any value.  With no key the page is written at once.
GetSortedKeys(t) ==
    /\ pc[t] = "sorted_keys"
    /\ LET keys == sorted(DOMAIN memory)
       IN  /\ loc' = [loc EXCEPT ![t].keys = keys]
           /\ IF keys = Empty
              THEN /\ pc' = [pc EXCEPT ![t] = "done"]
                   /\ resp' = [resp EXCEPT ![t] = FormPage(Empty, loc[t].message)]
              ELSE /\ pc' = [pc EXCEPT ![t] = "format_item"]
                   /\ resp' = [resp EXCEPT ![t] = [NoResponse EXCEPT !.status = 200]]
    /\ UNCHANGED <<memory, req, origin, seen, served>>

\* One turn of the generator: "{} : {}".format(key, memory[key]) for the next
\* key; after the last key the page is joined and written.
GetFormatItem(t) ==
    /\ pc[t] = "format_item"
    /\ LET key == loc[t].keys[Len(loc[t].known) + 1]
           known == Append(loc[t].known, <<key, memory[key]>>)
       IN  /\ key \in DOMAIN memory
           /\ loc' = [loc EXCEPT ![t].known = known]
           /\ IF Len(known) = Len(loc[t].keys)
              THEN /\ pc' = [pc EXCEPT ![t] = "done"]
                   /\ resp' = [resp EXCEPT ![t] = FormPage(known, loc[t].message)]
              ELSE /\ pc' = pc
                   /\ resp' = resp
    /\ UNCHANGED <<memory, req, origin, seen, served>>

\* ----------------------------------------------------------------- do_POST

\* length = int(self.headers.get('Content-length', 0)); rfile.read(length):
\* the body is read up to the declared length, and not at all without one
\* (so a request without Content-length is one with nothing to read).
ReadBody(hasLength, body) == SubSeq(body, 1, IF hasLength THEN Len(body) ELSE 0)

\* What do_POST takes from a request: whether it has a Content-length, the
\* keys of params = parse_qs(body), and the first value of each of the three
\* fields the handler indexes (Empty for a key that params lacks).
Form(hasLength, body) ==
    LET params == parse_qs(ReadBody(hasLength, body))
        first(k) == IF k \in DOMAIN params THEN params[k][1] ELSE Empty
    IN  [hasLength |-> hasLength, params |-> DOMAIN params,
         yourname |-> first("yourname"), longuri |-> first("longuri"),
         shortname |-> first("shortname")]

\* The forms of all the bodies a client can post.
Forms == { Form(hasLength, body) : hasLength \in BOOLEAN, body \in Bodies }

\* A thread starts do_POST: it reads and parses the body, takes
\* parse_qs(body)["yourname"][0] (a KeyError ends the handler: the thread is
\* left without having sent anything), builds the cookie, and answers 400
\* unless longuri and shortname are both in params.
do_POST(t) ==
    /\ pc[t] = "idle"
    /\ served < MaxRequests
    /\ \E path \in PostPaths, form \in Forms :
          LET locals == [NoLocals EXCEPT !.params = form.params]
          IN  /\ req' = [req EXCEPT ![t] =
                           [NoRequest EXCEPT !.method = "POST", !.path = path,
                                             !.hasLength = form.hasLength]]
              /\ IF "yourname" \notin form.params
                 THEN /\ loc' = [loc EXCEPT ![t] = [locals EXCEPT !.error = "KeyError"]]
                      /\ pc' = [pc EXCEPT ![t] = "done"]
                      /\ resp' = [resp EXCEPT ![t] = NoResponse]
                 ELSE IF "longuri" \notin form.params \/ "shortname" \notin form.params
                 THEN /\ loc' = [loc EXCEPT ![t] =
                                   [locals EXCEPT !.yourname = form.yourname]]
                      /\ pc' = [pc EXCEPT ![t] = "done"]
                      /\ resp' = [resp EXCEPT ![t] = MissingFields]
                 ELSE /\ loc' = [loc EXCEPT ![t] =
                                   [locals EXCEPT !.yourname = form.yourname,
                                                  !.longuri = form.longuri,
                                                  !.shortname = form.shortname]]
                      /\ pc' = [pc EXCEPT ![t] = "check_uri"]
                      /\ resp' = [resp EXCEPT ![t] = NoResponse]
    /\ served' = served + 1
    /\ UNCHANGED <<memory, origin, seen>>

\* A check that is made again after a falsy result, until it succeeds.
PostCheckURIRetry(t) ==
    /\ pc[t] = "check_uri"
    /\ \E outcome \in Outcomes :
          /\ loc' = [loc EXCEPT ![t].checked =
                                   [uri |-> loc[t].longuri, outcome |-> outcome]]
          /\ pc' = [pc EXCEPT ![t] =
                       IF Truthy(CheckURI(outcome)) THEN "set_item" ELSE "check_uri"]
    /\ UNCHANGED <<memory, req, resp, origin, seen, served>>

\* if CheckURI(longuri): one outbound GET; on a falsy result the 404 answer.
PostCheckURI(t) ==
    /\ pc[t] = "check_uri"
    /\ \E outcome \in Outcomes :
          /\ loc' = [loc EXCEPT ![t].checked =
                                   [uri |-> loc[t].longuri, outcome |-> outcome]]
          /\ IF Truthy(CheckURI(outcome))
             THEN /\ pc' = [pc EXCEPT ![t] = "set_item"]
                  /\ resp' = resp
             ELSE /\ pc' = [pc EXCEPT ![t] = "done"]
                  /\ resp' = [resp EXCEPT ![t] = Unfair]
    /\ UNCHANGED <<memory, req, origin, seen, served>>

\* A store under the name of the request path instead of the form's shortname.
PostSetItemAtPath(t) ==
    /\ pc[t] = "set_item"
    /\ memory' = SetItem(memory, unquote(Tail(req[t].path)), loc[t].longuri)
    /\ origin' = [n \in DOMAIN origin \cup {unquote(Tail(req[t].path))} |->
                    IF n = unquote(Tail(req[t].path))
                    THEN [uri |-> loc[t].longuri, checked |-> loc[t].checked,
                          by |-> t,
                          prev |-> IF n \in DOMAIN memory THEN memory[n] ELSE Empty]
                    ELSE origin[n]]
    /\ seen' = [u \in Handlers |->
                  IF pc[u] \in GetSteps THEN seen[u] \cup {memory'} ELSE seen[u]]
    /\ resp' = [resp EXCEPT ![t] = Registered(loc[t].yourname)]
    /\ pc' = [pc EXCEPT ![t] = "done"]
    /\ UNCHANGED <<req, loc, served>>

\* memory[shortname] = longuri, then the 303 answer with the cookie.  origin
\* records, for each key, the URI last written, its writer, what the writer's
\* CheckURI call had been given and had met, and the value replaced; seen
\* records the dictionary for the GETs in flight.
PostSetItem(t) ==
    /\ pc[t] = "set_item"
    /\ memory' = SetItem(memory, loc[t].shortname, loc[t].longuri)
    /\ origin' = [n \in DOMAIN origin \cup {loc[t].shortname} |->
                    IF n = loc[t].shortname
                    THEN [uri |-> loc[t].longuri, checked |-> loc[t].checked,
                          by |-> t,
                          prev |-> IF n \in DOMAIN memory THEN memory[n] ELSE Empty]
                    ELSE origin[n]]
    /\ seen' = [u \in Handlers |->
                  IF pc[u] \in GetSteps THEN seen[u] \cup {memory'} ELSE seen[u]]
    /\ resp' = [resp EXCEPT ![t] = Registered(loc[t].yourname)]
    /\ pc' = [pc EXCEPT ![t] = "done"]
    /\ UNCHANGED <<req, loc, served>>

\* The handler returns (or its exception is reported by the server) and the
\* thread ends; the server goes on accepting requests.
Finish(t) ==
    /\ pc[t] = "done"
    /\ pc' = [pc EXCEPT ![t] = "idle"]
    /\ req' = [req EXCEPT ![t] = NoRequest]
    /\ loc' = [loc EXCEPT ![t] = NoLocals]
    /\ resp' = [resp EXCEPT ![t] = NoResponse]
    /\ seen' = [seen EXCEPT ![t] = {}]
    /\ UNCHANGED <<memory, origin, served>>

Next ==
    \E t \in Handlers :
        \/ do_GET(t)
        \/ GetInMemory(t)
        \/ GetReadValue(t)
        \/ GetSortedKeys(t)
        \/ GetFormatItem(t)
        \/ do_POST(t)
        \/ PostCheckURI(t)
        \/ PostSetItem(t)
        \/ Finish(t)

Spec == Init /\ [][Next]_vars

\* -------------------------------------------------------------- properties

IsDone(t, method) == pc[t] = "done" /\ req[t].method = method

\* The short name a GET asks for: the percent-decoded path without its slash.
PathName(t) == unquote(Tail(req[t].path))

\* Key n was bound to uri u in every state of the dictionary that the GET of
\* handler t has lived through (from its receipt to its answer).
BoundThroughout(t, n, u) ==
    /\ seen[t] # {}
    /\ \A m \in seen[t] : n \in DOMAIN m /\ m[n] = u

\* C1: a GET to /<name>, issued while name is registered with uri and answered
\* before any re-registration of name, is answered 303 with Location uri,
\* whatever Cookie header it carries.
C1_LookupFollowsPath ==
    \A t \in Handlers, u \in URIs :
        (IsDone(t, "GET") /\ PathName(t) # Empty /\ BoundThroughout(t, PathName(t), u))
            => (resp[t].status = 303 /\ resp[t].location = u)

\* C2: a GET to the root path is answered 200 with the form, in every state
\* of the registry and for every Cookie header; with a yourname cookie of value
\* v the form carries the greeting for v.
C2_RootShowsForm ==
    \A t \in Handlers :
        (IsDone(t, "GET") /\ req[t].path = <<"/">>)
            => /\ resp[t].status = 200
               /\ resp[t].body.kind = "form"
               /\ (req[t].hasCookie /\ "yourname" \in DOMAIN SimpleCookie(req[t].cookie))
                     => resp[t].body.message =
                            HeyThere(SimpleCookie(req[t].cookie)["yourname"])

\* C3: every entry (name, uri) of the registry was written by a handler whose
\* liveness check, made on that same uri, had met a 200 response; no entry is
\* there after a failed check or without a check.
C3_EntriesWereValidated ==
    \A n \in DOMAIN memory :
        /\ n \in DOMAIN origin
        /\ origin[n].uri = memory[n]
        /\ origin[n].checked = [uri |-> memory[n], outcome |-> "200"]

C3_Witness ==
    \E n \in DOMAIN memory, t \in Handlers :
        /\ IsDone(t, "POST")
        /\ loc[t].checked.outcome = "other"
        /\ loc[t].shortname \notin DOMAIN memory
        /\ origin[n].checked.outcome = "200"

\* C4: a POST whose parsed form lacks longuri or lacks shortname, whatever its
\* other fields, is answered 400 with the missing-fields body, with no
\* Set-Cookie header, no liveness check and no change of the registry.
C4_MissingFieldsAnswered400 ==
    [][\A t \in Handlers :
          (/\ pc[t] = "idle"
           /\ req'[t].method = "POST"
           /\ ("longuri" \notin loc'[t].params \/ "shortname" \notin loc'[t].params))
            => /\ pc'[t] = "done"
               /\ resp'[t].status = 400
               /\ resp'[t].body.kind = "missing-form-fields"
               /\ resp'[t].setCookie = Empty
               /\ loc'[t].checked = NotChecked
               /\ memory' = memory]_vars

\* C5: a POST whose liveness check fails (another status than 200, or a
\* request error) is answered 404 without a cookie and leaves the registry as
\* it was; from then on the registry changes only by the write of a handler
\* whose own check met a 200, so the rejected pair never enters it otherwise.
C5_FailedCheckRejected ==
    [][\A t \in Handlers :
          /\ (/\ pc[t] = "check_uri"
              /\ pc'[t] # "check_uri"
              /\ loc'[t].checked.outcome # "200")
                => /\ pc'[t] = "done"
                   /\ resp'[t].status = 404
                   /\ resp'[t].body.kind = "this-is-unfair"
                   /\ resp'[t].setCookie = Empty
                   /\ memory' = memory
          /\ (memory' # memory /\ loc[t].checked.outcome \in {"other", "RequestException"})
                => \E w \in Handlers \ {t} :
                      /\ pc[w] = "set_item"
                      /\ loc[w].checked.outcome = "200"
                      /\ loc[w].shortname \in DOMAIN memory'
                      /\ memory'[loc[w].shortname] = loc[w].longuri
                      /\ \A n \in DOMAIN memory' \ {loc[w].shortname} :
                            n \in DOMAIN memory /\ memory'[n] = memory[n]]_vars

C5_Witness ==
    \E t \in Handlers :
        /\ IsDone(t, "POST")
        /\ loc[t].checked.outcome = "RequestException"
        /\ resp[t].status = 404
        /\ memory # EmptyMemory
        /\ ~(loc[t].shortname \in DOMAIN memory
             /\ memory[loc[t].shortname] = loc[t].longuri)

\* C6: a POST with longuri and shortname whose liveness check succeeds writes
\* the entry shortname -> longuri and nothing else, and is answered 303 with
\* Location "/" and a Set-Cookie header whose yourname cookie holds the
\* submitted yourname, with Max-Age 600; yourname does not enter the registry.
C6_SuccessfulRegistration ==
    [][\A t \in Handlers :
          /\ (/\ pc[t] = "check_uri"
              /\ pc'[t] # "check_uri"
              /\ loc'[t].checked.outcome = "200")
                => (pc'[t] = "set_item" /\ memory' = memory)
          /\ (pc[t] = "set_item" /\ pc'[t] # "set_item")
                => /\ loc[t].checked = [uri |-> loc[t].longuri, outcome |-> "200"]
                   /\ DOMAIN memory' = DOMAIN memory \cup {loc[t].shortname}
                   /\ memory'[loc[t].shortname] = loc[t].longuri
                   /\ \A n \in DOMAIN memory \ {loc[t].shortname} : memory'[n] = memory[n]
                   /\ loc[t].yourname # loc[t].shortname
                         => (loc[t].yourname \in DOMAIN memory'
                                <=> loc[t].yourname \in DOMAIN memory)
                   /\ pc'[t] = "done"
                   /\ resp'[t].status = 303
                   /\ resp'[t].location = <<"/">>
                   /\ Len(resp'[t].setCookie) = 1
                   /\ resp'[t].setCookie[1].name = "yourname"
                   /\ CookieUnquote(resp'[t].setCookie[1].value) = loc[t].yourname
                   /\ resp'[t].setCookie[1].maxAge = 600]_vars

C6_Witness ==
    \E t \in Handlers :
        /\ IsDone(t, "POST")
        /\ resp[t].status = 303
        /\ resp[t].setCookie # Empty
        /\ loc[t].shortname \in DOMAIN memory
        /\ memory[loc[t].shortname] = loc[t].longuri
        /\ loc[t].yourname \notin DOMAIN memory

\* C7: after a short name was registered twice, with two different reachable
\* URIs, there is one entry for it, holding the second URI, and a later lookup
\* of the name is redirected to the second URI.
C7_OverwriteThenLookup ==
    \A t \in Handlers :
        (/\ IsDone(t, "GET")
         /\ PathName(t) \in DOMAIN origin
         /\ origin[PathName(t)].prev \notin {Empty, origin[PathName(t)].uri}
         /\ BoundThroughout(t, PathName(t), origin[PathName(t)].uri))
            => /\ memory[PathName(t)] = origin[PathName(t)].uri
               /\ resp[t].status = 303
               /\ resp[t].location = origin[PathName(t)].uri

\* The handlers that have answered a registration with the 303.
Registrars == { t \in Handlers : IsDone(t, "POST") /\ resp[t].status = 303 }

\* C8: once N concurrently handled registrations of pairwise distinct short
\* names have all answered, the registry holds all N entries, each with the
\* URI its own request submitted; no write of one handler loses or changes
\* the entry of another.
C8_NoLostUpdates ==
    /\ \A t \in Registrars :
          /\ loc[t].shortname \in DOMAIN memory
          /\ origin[loc[t].shortname].by = t => memory[loc[t].shortname] = loc[t].longuri
    /\ (/\ Registrars = Handlers
        /\ served = NumHandlers
        /\ \A t, w \in Handlers : t # w => loc[t].shortname # loc[w].shortname)
          => /\ DOMAIN memory = { loc[t].shortname : t \in Handlers }
             /\ \A t \in Handlers : memory[loc[t].shortname] = loc[t].longuri

C8_Witness ==
    /\ Registrars = Handlers
    /\ served = NumHandlers
    /\ \A t, w \in Handlers : t # w => loc[t].shortname # loc[w].shortname
    /\ \A t \in Handlers : memory[loc[t].shortname] = loc[t].longuri

\* The pairs a dictionary holds.
Pairs(m) == { <<n, m[n]>> : n \in DOMAIN m }

\* C9: the listing of a form page is the full content of the registry at one
\* single instant between the receipt of the request and its answer.
C9_ListingIsSnapshot ==
    \A t \in Handlers :
        (IsDone(t, "GET") /\ resp[t].body.kind = "form")
            => \E m \in seen[t] :
                  { resp[t].body.listing[i] : i \in 1..Len(resp[t].body.listing) } = Pairs(m)

\* C10: every request ends with one HTTP response carrying a status code; no
\* handler ends by an unhandled exception without having answered.
C10_EveryRequestAnswered ==
    \A t \in Handlers :
        pc[t] = "done" => (resp[t].status \in {200, 303, 400, 404} /\ loc[t].error = "")

\* C11: a GET with a non-empty path whose decoded path is not a key of the
\* registry is answered 404 with a body that names that decoded path; a 303 is
\* sent only when the decoded path is a key of the registry.
C11_UnknownPathAnswered404 ==
    \A t \in Handlers :
        (IsDone(t, "GET") /\ PathName(t) # Empty)
            => /\ (\A m \in seen[t] : PathName(t) \notin DOMAIN m)
                     => /\ resp[t].status = 404
                        /\ resp[t].body.kind = "i-dont-know"
                        /\ resp[t].body.name = PathName(t)
               /\ resp[t].status = 303
                     => \E m \in seen[t] : PathName(t) \in DOMAIN m

\* The names of a listing, in the order of its lines.
ListedNames(listing) == [i \in 1..Len(listing) |-> listing[i][1]]

\* C12: the listing of a form page has its lines in strictly ascending order
\* of name and one line per key the registry had when the page was made; when
\* no registration ran during the request, its lines are exactly the pairs of
\* the registry.
C12_ListingSortedAndComplete ==
    \A t \in Handlers :
        (IsDone(t, "GET") /\ resp[t].body.kind = "form")
            => LET listing == resp[t].body.listing
                   names == ListedNames(listing)
               IN  /\ \A i \in 1..(Len(names) - 1) : StrLess(names[i], names[i + 1])
                   /\ \E m \in seen[t] : { names[i] : i \in 1..Len(names) } = DOMAIN m
                   /\ \A i \in 1..Len(listing) :
                         \E m \in seen[t] : /\ listing[i][1] \in DOMAIN m
                                            /\ m[listing[i][1]] = listing[i][2]
                   /\ Cardinality(seen[t]) = 1
                         => \A m \in seen[t] :
                               /\ Len(listing) = Cardinality(DOMAIN m)
                               /\ { listing[i] : i \in 1..Len(listing) } = Pairs(m)

C12_Witness ==
    \E t \in Handlers :
        /\ IsDone(t, "GET")
        /\ resp[t].body.kind = "form"
        /\ Len(resp[t].body.listing) = 2
        /\ Cardinality(seen[t]) = 1

\* C13: no handler writes the registry while another handler is part-way
\* through reading it for a listing (its keys taken, its values not all read).
C13_NoWriteDuringListing ==
    [][\A w \in Handlers :
          (pc[w] = "set_item" /\ pc'[w] = "done")
            => \A t \in Handlers \ {w} : pc[t] # "format_item"]_vars

\* C14: a GET whose Cookie header holds no yourname cookie is routed and
\* answered as without the header: 200 and the form for the empty path, 303 or
\* 404 by the lookup of the decoded path otherwise; the form then shows the
\* not-sure message where it shows the default message without the header.
C14_UnreadableCookieIsHarmless ==
    \A t \in Handlers :
        (/\ IsDone(t, "GET")
         /\ ~(req[t].hasCookie /\ "yourname" \in DOMAIN SimpleCookie(req[t].cookie)))
            => IF PathName(t) = Empty
               THEN /\ resp[t].status = 200
                    /\ resp[t].body.kind = "form"
                    /\ resp[t].body.message =
                          IF req[t].hasCookie THEN NotSure ELSE DontKnowYou
               ELSE \/ /\ resp[t].status = 303
                       /\ \E m \in seen[t] : /\ PathName(t) \in DOMAIN m
                                             /\ m[PathName(t)] = resp[t].location
                    \/ /\ resp[t].status = 404
                       /\ resp[t].body.name = PathName(t)
                       /\ \E m \in seen[t] : PathName(t) \notin DOMAIN m

C14_Witness ==
    \E t, w \in Handlers :
        /\ IsDone(t, "GET") /\ IsDone(w, "GET")
        /\ req[t].hasCookie /\ "yourname" \notin DOMAIN SimpleCookie(req[t].cookie)
        /\ req[t].path = <<"/">>
        /\ resp[t].body.message = NotSure
        /\ req[w].hasCookie /\ "yourname" \notin DOMAIN SimpleCookie(req[w].cookie)
        /\ resp[w].status = 303

\* C15: a registration makes at most one liveness check, makes it only when
\* longuri and shortname are both in the form, on the submitted longuri, and
\* before any write; it writes the registry only after its own check met
\* status 200, and any other end of the check leads to no write.
C15_OneCheckBeforeWrite ==
    [][\A t \in Handlers :
          /\ (loc'[t].checked # loc[t].checked /\ pc[t] # "done")
                => /\ pc[t] = "check_uri"
                   /\ loc[t].checked = NotChecked
                   /\ {"longuri", "shortname"} \subseteq loc[t].params
                   /\ loc'[t].checked.uri = loc[t].longuri
                   /\ loc'[t].checked.outcome \in Outcomes
                   /\ pc'[t] = IF loc'[t].checked.outcome = "200"
                               THEN "set_item" ELSE "done"
                   /\ memory' = memory
          /\ pc[t] = "check_uri" => (loc[t].checked = NotChecked /\ pc'[t] # "idle")
          /\ (pc[t] = "set_item" /\ pc'[t] # "set_item")
                => loc[t].checked = [uri |-> loc[t].longuri, outcome |-> "200"]
          /\ (req[t].method = "POST" /\ pc[t] # "set_item" /\ pc'[t] # pc[t])
                => memory' = memory]_vars

C15_Witness ==
    \E t, w \in Handlers :
        /\ IsDone(t, "POST") /\ resp[t].status = 303
        /\ loc[t].checked = [uri |-> loc[t].longuri, outcome |-> "200"]
        /\ memory[loc[t].shortname] = loc[t].longuri
        /\ IsDone(w, "POST") /\ resp[w].status = 400
        /\ loc[w].checked = NotChecked

\* C16: no step of a GET handler changes the registry and no answer to a GET
\* has a Set-Cookie header; no step removes a key, and a key gets a value, or
\* another value, only by the write of a registration of that same key whose
\* check met status 200.
C16_GetsAreReadOnly ==
    [][/\ DOMAIN memory \subseteq DOMAIN memory'
       /\ \A n \in DOMAIN memory' :
             (n \notin DOMAIN memory \/ memory'[n] # memory[n])
                => \E w \in Handlers :
                      /\ req[w].method = "POST"
                      /\ pc[w] = "set_item" /\ pc'[w] = "done"
                      /\ loc[w].shortname = n
                      /\ loc[w].longuri = memory'[n]
                      /\ loc[w].checked.outcome = "200"
       /\ \A t \in Handlers :
             /\ (req'[t].method = "GET" /\ (pc'[t] # pc[t] \/ loc'[t] # loc[t]))
                   => memory' = memory
             /\ req'[t].method = "GET" => resp'[t].setCookie = Empty]_vars

C16_Witness ==
    \E t \in Handlers, n \in DOMAIN memory :
        /\ IsDone(t, "GET")
        /\ resp[t].status = 200
        /\ resp[t].body.listing # Empty
        /\ origin[n].prev \notin {Empty, memory[n]}

\* Two requests carry the same form and their checks ended alike.
SameSubmission(t, w) ==
    /\ loc[t].params = loc[w].params
    /\ loc[t].yourname = loc[w].yourname
    /\ loc[t].longuri = loc[w].longuri
    /\ loc[t].shortname = loc[w].shortname
    /\ loc[t].checked = loc[w].checked

\* C17: the path of a POST has no influence: two POSTs with the same form and
\* the same end of the check get the same status, headers and body whatever
\* their paths, no POST is answered as a lookup or a form page, and the entry
\* a POST writes has the form's shortname as key, never the path.
C17_PostIgnoresPath ==
    [][\A t \in Handlers :
          /\ IsDone(t, "POST")'
                => /\ resp'[t].status \in {0, 303, 400, 404}
                   /\ resp'[t].body.kind \in {"", "missing-form-fields", "this-is-unfair"}
                   /\ resp'[t].status = 303 => resp'[t].location = <<"/">>
                   /\ \A w \in Handlers :
                         (IsDone(w, "POST")' /\ SameSubmission(t, w)')
                            => resp'[t] = resp'[w]
          /\ (req[t].method = "POST" /\ pc[t] = "set_item" /\ pc'[t] = "done")
                => /\ DOMAIN memory' = DOMAIN memory \cup {loc[t].shortname}
                   /\ memory'[loc[t].shortname] = loc[t].longuri
                   /\ \A n \in DOMAIN memory \ {loc[t].shortname} :
                         memory'[n] = memory[n]]_vars

C17_Witness ==
    \E t, w \in Handlers :
        /\ IsDone(t, "POST") /\ IsDone(w, "POST")
        /\ req[t].path = <<"/">> /\ req[w].path = <<"/", "a">>
        /\ SameSubmission(t, w)
        /\ resp[w].status = 303
        /\ loc[w].shortname = <<"b">>
        /\ DOMAIN memory = {<<"b">>}

\* C18: between the membership test and the read of a lookup the key is never
\* gone, and the Location of a 303 is a value that the looked-up key held at
\* some instant of the request, written after a check that met status 200.
C18_LookupReadsStoredValue ==
    \A t \in Handlers :
        /\ pc[t] = "read_value" => loc[t].name \in DOMAIN memory
        /\ (IsDone(t, "GET") /\ resp[t].status = 303)
              => /\ \E m \in seen[t] : /\ loc[t].name \in DOMAIN m
                                       /\ m[loc[t].name] = resp[t].location
                 /\ resp[t].location \in URIs
                 /\ resp[t].location = memory[loc[t].name]
                       => origin[loc[t].name].checked =
                             [uri |-> resp[t].location, outcome |-> "200"]

C18_Witness ==
    \E t \in Handlers :
        /\ IsDone(t, "GET")
        /\ resp[t].status = 303
        /\ \E m1, m2 \in seen[t] :
              /\ loc[t].name \in DOMAIN m1 \cap DOMAIN m2
              /\ m1[loc[t].name] # m2[loc[t].name]

====
